---- MODULE Spec2Model ----
(***************************************************************************)
(* The turn parser (gptMessages), the turn serializer (messageToMd) and    *)
(* the content sanitizer (sanitizeContent) of obsidian-buddy, with the     *)
(* chat command that drives them.                                          *)
(*                                                                         *)
(* A string is a sequence of lexical units.  The units are the newline,    *)
(* one whitespace character, one ordinary character, the three backticks   *)
(* of a fence and the type tag "buddy".  Every operation below works on    *)
(* these units exactly as the TypeScript works on the characters they      *)
(* stand for.                                                              *)
(***************************************************************************)
EXTENDS Naturals, Sequences, FiniteSets

VARIABLES
    md,        \* gptMessages: its argument
    lines,     \* gptMessages: the lines not yet shifted
    messages,  \* gptMessages: the turns pushed so far
    role,      \* gptMessages: the current role, or null
    content,   \* gptMessages: the accumulated content, or null
    pc,        \* gptMessages: in the loop, returned, or threw
    result,    \* gptMessages: the returned value, null until it returns
    dropped,   \* history: a flush since the last push pushed nothing
    span,      \* history: the lines stored since the last fence
    turn,      \* messageToMd: its argument
    fragment,  \* messageToMd: the returned string, null until it returns
    doc,       \* the editor: the text of the active document
    calls,     \* chat: the invocations under way
    nextId,    \* chat: the number of invocations that got past the parse
    notices,   \* the notices shown so far
    appended,  \* history: the replies put into the document, in order
    input,       \* sanitizeContent: its argument
    sanitized,   \* sanitizeContent(input), null until it returns
    resanitized, \* sanitizeContent(sanitized), null until it returns
    links,       \* the vault: the links between its files
    activeFile,  \* prechat: the file of the active view
    linkedFiles  \* prechat: the list getLinkedFiles returned, null before

parserVars ==
    <<md, lines, messages, role, content, pc, result, dropped, span>>

serializerVars == <<turn, fragment>>

chatVars == <<doc, calls, nextId, notices, appended>>

sanitizerVars == <<input, sanitized, resanitized>>

linkVars == <<links, activeFile, linkedFiles>>

vars == <<parserVars, serializerVars, chatVars, sanitizerVars, linkVars>>

-----------------------------------------------------------------------------
(* Lexical units *)

NL == "\n"
SP == " "
Ch == "a"
Ch2 == "b"
Tab == "\t"
Tick3 == "[3 backticks]"
Tag == "buddy"

(* Bounds of the checked documents *)
MaxLines == 6
MaxWideLines == 4
MaxSep == 2
MaxContent == 3
MaxChats == 2
MaxNotices == 1
MaxDocLen == 4
MaxInput == 5
MaxLinks == 5
MaxDepth == 3

(* The null of JavaScript, for content (a string or null) and for role *)
Null == <<>>
Some(s) == <<s>>
NullRole == "null"

(* The class \s of the regular expressions *)
IsSpace(c) == c \in {SP, NL, Tab}

-----------------------------------------------------------------------------
(* sanitizeContent: s.replace(/^\s+|\s+$/g, "") *)

RECURSIVE StripLeading(_)
StripLeading(s) ==
    IF s # <<>> /\ IsSpace(Head(s)) THEN StripLeading(Tail(s)) ELSE s

RECURSIVE StripTrailing(_)
StripTrailing(s) ==
    IF s # <<>> /\ IsSpace(s[Len(s)])
    THEN StripTrailing(SubSeq(s, 1, Len(s) - 1))
    ELSE s

(* Mutant: only the trailing whitespace is removed *)
sanitizeTrailingOnly(s) == StripTrailing(s)

(* Mutant: one whitespace character is removed at each end *)
sanitizeOneEach(s) ==
    LET front == IF s # <<>> /\ IsSpace(Head(s)) THEN Tail(s) ELSE s
    IN  IF front # <<>> /\ IsSpace(front[Len(front)])
        THEN SubSeq(front, 1, Len(front) - 1)
        ELSE front

sanitizeContent(s) == StripTrailing(StripLeading(s))

-----------------------------------------------------------------------------
(* md.split("\n") and the two line patterns *)

RECURSIVE Split(_)
Split(s) ==
    IF \E i \in 1..Len(s) : s[i] = NL
    THEN LET i == CHOOSE k \in 1..Len(s) :
                     s[k] = NL /\ \A j \in 1..(k - 1) : s[j] # NL
         IN  <<SubSeq(s, 1, i - 1)>> \o Split(SubSeq(s, i + 1, Len(s)))
    ELSE <<s>>

RECURSIVE Join(_)
Join(ls) ==
    IF Len(ls) = 0 THEN <<>>
    ELSE IF Len(ls) = 1 THEN ls[1]
    ELSE ls[1] \o <<NL>> \o Join(Tail(ls))

(* line.match(/^[3 backticks]buddy\s*$/) *)
MatchOpen(line) ==
    /\ Len(line) >= 2
    /\ line[1] = Tick3
    /\ line[2] = Tag
    /\ \A i \in 3..Len(line) : IsSpace(line[i])

(* line.match(/^[3 backticks]\s*$/) *)
MatchClose(line) ==
    /\ Len(line) >= 1
    /\ line[1] = Tick3
    /\ \A i \in 2..Len(line) : IsSpace(line[i])

-----------------------------------------------------------------------------
(* gptMessages, on the record st = [messages, role, content] of its locals *)

(* A JavaScript string-or-null used as a condition *)
Truthy(c) == c # Null /\ c[1] # <<>>

(* Mutant: the turn is pushed without the test for empty content *)
UpdateMessagesNoEmptyCheck(st) ==
    IF st.content # Null
    THEN [messages |-> Append(st.messages,
                              [role |-> st.role,
                               content |-> sanitizeContent(st.content[1])]),
          role |-> NullRole,
          content |-> Null]
    ELSE st

(* Mutant: the content is tested sanitized but pushed as it is *)
UpdateMessagesPushesRaw(st) ==
    IF st.content # Null /\ sanitizeContent(st.content[1]) # <<>>
    THEN [messages |-> Append(st.messages,
                              [role |-> st.role,
                               content |-> st.content[1]]),
          role |-> NullRole,
          content |-> Null]
    ELSE st

UpdateMessages(st) ==
    IF st.content # Null /\ sanitizeContent(st.content[1]) # <<>>
    THEN [messages |-> Append(st.messages,
                              [role |-> st.role,
                               content |-> sanitizeContent(st.content[1])]),
          role |-> NullRole,
          content |-> Null]
    ELSE st

(* Mutant: the open fence is accepted inside an assistant block too *)
IsOpenBranchAnyRole(st, line) == MatchOpen(line)

IsOpenBranch(st, line) == st.role # "assistant" /\ MatchOpen(line)

(* Mutant: a close fence is accepted outside an assistant block too *)
IsCloseBranchAnyRole(st, line) ==
    ~IsOpenBranch(st, line) /\ MatchClose(line)

IsCloseBranch(st, line) ==
    ~IsOpenBranch(st, line) /\ st.role = "assistant" /\ MatchClose(line)

IsStartBranch(st, line) ==
    ~IsOpenBranch(st, line) /\ ~IsCloseBranch(st, line) /\ st.role = NullRole

IsAppendBranch(st, line) ==
    ~IsOpenBranch(st, line) /\ ~IsCloseBranch(st, line) /\ st.role # NullRole

(* Mutant: the open fence changes the role without flushing *)
OnOpenNoFlush(st) == [st EXCEPT !.role = "assistant"]

OnOpen(st) == [UpdateMessages(st) EXCEPT !.role = "assistant"]

(* Mutant: the role after a close fence is still assistant *)
OnCloseStaysAssistant(st) == [UpdateMessages(st) EXCEPT !.role = "assistant"]

OnClose(st) == [UpdateMessages(st) EXCEPT !.role = "user"]

OnStart(st, line) == [st EXCEPT !.role = "user", !.content = Some(line)]

(* Mutant: an empty line is not stored *)
OnAppendSkipsEmpty(st, line) ==
    IF line = <<>>
    THEN st
    ELSE [st EXCEPT !.content =
             Some(IF Truthy(st.content) THEN st.content[1] \o <<NL>> \o line
                                        ELSE line)]

OnAppend(st, line) ==
    [st EXCEPT !.content =
        Some(IF Truthy(st.content) THEN st.content[1] \o <<NL>> \o line
                                   ELSE line)]

LoopBody(st, line) ==
    IF IsOpenBranch(st, line) THEN OnOpen(st)
    ELSE IF IsCloseBranch(st, line) THEN OnClose(st)
    ELSE IF IsStartBranch(st, line) THEN OnStart(st, line)
    ELSE OnAppend(st, line)

(* Mutant: an unfinished user turn throws as well *)
ThrowsAnyRole(st) == st.content # Null /\ st.role # NullRole

Throws(st) == st.content # Null /\ st.role # NullRole /\ st.role = "assistant"

(* Mutant: the last turn is pushed without the test for empty content *)
AfterLoopNoCheck(st) ==
    IF st.content # Null /\ st.role # NullRole
    THEN UpdateMessagesNoEmptyCheck(st)
    ELSE st

AfterLoop(st) ==
    IF st.content # Null /\ st.role # NullRole THEN UpdateMessages(st) ELSE st

InitLocals == [messages |-> <<>>, role |-> NullRole, content |-> Null]

RECURSIVE RunLoop(_, _)
RunLoop(st, ls) ==
    IF ls = <<>> THEN st ELSE RunLoop(LoopBody(st, Head(ls)), Tail(ls))

(* The outcome of gptMessages(text): threw, or the returned messages *)
gptMessages(text) ==
    LET st == RunLoop(InitLocals, Split(text))
    IN  IF Throws(st) THEN [threw |-> TRUE, messages |-> <<>>]
        ELSE [threw |-> FALSE, messages |-> AfterLoop(st).messages]

-----------------------------------------------------------------------------
(* messageToMd *)

(* Mutant: the content is trimmed before it is written *)
messageToMdTrimmed(m) ==
    IF m.role = "assistant"
    THEN <<NL, Tick3, Tag, NL>> \o sanitizeContent(m.content) \o <<NL, Tick3>>
    ELSE <<NL>> \o sanitizeContent(m.content)

(* Mutant: the close fence is not written *)
messageToMdNoClose(m) ==
    IF m.role = "assistant"
    THEN <<NL, Tick3, Tag, NL>> \o m.content
    ELSE <<NL>> \o m.content

messageToMd(m) ==
    IF m.role = "assistant"
    THEN <<NL, Tick3, Tag, NL>> \o m.content \o <<NL, Tick3>>
    ELSE <<NL>> \o m.content

-----------------------------------------------------------------------------
(* The documents gptMessages is run on *)

OpenLine == <<Tick3, Tag>>
CloseLine == <<Tick3>>

(* The line shapes of the long documents *)
BasicKinds == { <<>>, <<SP>>, <<Ch>>, OpenLine, CloseLine }

(* More line shapes, for the short documents: a second character, and
   whitespace before and after a fence *)
WideKinds ==
    BasicKinds \cup
    { <<Ch2>>, <<SP, Tick3, Tag>>, <<SP, Tick3>>,
      <<Tick3, Tag, SP>>, <<Tick3, SP>> }

(* The documents of 1 to n lines, each of one of the shapes in kinds *)
IsDocOf(text, kinds, n) ==
    \E k \in 1..n : \E ls \in [1..k -> kinds] : text = Join(ls)

(* Two closed assistant blocks, back to back or with blank lines between *)
BlockBodies ==
    { [body |-> << <<Ch>> >>, trimmed |-> <<Ch>>],
      [body |-> << <<Ch2>> >>, trimmed |-> <<Ch2>>],
      [body |-> << <<Ch>>, <<>>, <<Ch2>> >>, trimmed |-> <<Ch, NL, NL, Ch2>>],
      [body |-> << <<SP>>, <<Ch2>> >>, trimmed |-> <<Ch2>>] }

Separators == UNION { [1..k -> { <<>>, <<SP>> }] : k \in 0..MaxSep }

TwoBlockCases ==
    { [doc |-> Join(<<OpenLine>> \o a.body \o <<CloseLine>> \o sep \o
                    <<OpenLine>> \o b.body \o <<CloseLine>>),
       first |-> a.trimmed,
       second |-> b.trimmed] :
      a \in BlockBodies, b \in BlockBodies, sep \in Separators }

-----------------------------------------------------------------------------
(* One call of gptMessages, a loop iteration at a time *)

(* The values of the variables a specification does not use *)
ParserIdle ==
    /\ md = <<>>
    /\ lines = <<>>
    /\ messages = <<>>
    /\ role = NullRole
    /\ content = Null
    /\ pc = "idle"
    /\ result = Null
    /\ dropped = FALSE
    /\ span = <<>>

SerializerIdle == turn = Null /\ fragment = Null

ChatIdle ==
    doc = <<>> /\ calls = {} /\ nextId = 0 /\ notices = 0 /\ appended = <<>>

SanitizerIdle == input = <<>> /\ sanitized = Null /\ resanitized = Null

LinksIdle == links = {} /\ activeFile = "" /\ linkedFiles = Null

Locals == [messages |-> messages, role |-> role, content |-> content]

SetLocals(st) ==
    /\ messages' = st.messages
    /\ role' = st.role
    /\ content' = st.content

(* updateMessages() was called and pushed nothing *)
Flushed(st) == dropped' = (UpdateMessages(st) = st)

ParserInit ==
    /\ \/ IsDocOf(md, BasicKinds, MaxLines)
       \/ IsDocOf(md, WideKinds, MaxWideLines)
       \/ \E c \in TwoBlockCases : md = c.doc
    /\ lines = Split(md)
    /\ messages = <<>>
    /\ role = NullRole
    /\ content = Null
    /\ pc = "loop"
    /\ result = Null
    /\ dropped = FALSE
    /\ span = <<>>
    /\ SerializerIdle
    /\ ChatIdle
    /\ SanitizerIdle
    /\ LinksIdle

(* Mutant: lines.shift() is called twice in an iteration *)
ShiftTwice ==
    /\ pc = "loop"
    /\ lines # <<>>
    /\ lines' = (IF Len(lines) >= 2 THEN Tail(Tail(lines)) ELSE <<>>)
    /\ UNCHANGED <<md, pc, result>>
    /\ UNCHANGED <<serializerVars, chatVars, sanitizerVars, linkVars>>

Shift ==
    /\ pc = "loop"
    /\ lines # <<>>
    /\ lines' = Tail(lines)
    /\ UNCHANGED <<md, pc, result>>
    /\ UNCHANGED <<serializerVars, chatVars, sanitizerVars, linkVars>>

OpenFence ==
    /\ Shift
    /\ IsOpenBranch(Locals, Head(lines))
    /\ SetLocals(OnOpen(Locals))
    /\ Flushed(Locals)
    /\ span' = <<>>

CloseFence ==
    /\ Shift
    /\ IsCloseBranch(Locals, Head(lines))
    /\ SetLocals(OnClose(Locals))
    /\ Flushed(Locals)
    /\ span' = <<>>

StartUser ==
    /\ Shift
    /\ IsStartBranch(Locals, Head(lines))
    /\ SetLocals(OnStart(Locals, Head(lines)))
    /\ span' = Append(span, Head(lines))
    /\ UNCHANGED dropped

AppendLine ==
    /\ Shift
    /\ IsAppendBranch(Locals, Head(lines))
    /\ SetLocals(OnAppend(Locals, Head(lines)))
    /\ span' = Append(span, Head(lines))
    /\ UNCHANGED dropped

Throw ==
    /\ pc = "loop"
    /\ lines = <<>>
    /\ Throws(Locals)
    /\ pc' = "threw"
    /\ UNCHANGED <<md, lines, messages, role, content, result, dropped, span>>
    /\ UNCHANGED <<serializerVars, chatVars, sanitizerVars, linkVars>>

Return ==
    /\ pc = "loop"
    /\ lines = <<>>
    /\ ~Throws(Locals)
    /\ SetLocals(AfterLoop(Locals))
    /\ IF AfterLoop(Locals) = Locals THEN UNCHANGED dropped ELSE dropped' = FALSE
    /\ result' = Some(AfterLoop(Locals).messages)
    /\ pc' = "returned"
    /\ UNCHANGED <<md, lines, span>>
    /\ UNCHANGED <<serializerVars, chatVars, sanitizerVars, linkVars>>

ParserNext ==
    \/ OpenFence
    \/ CloseFence
    \/ StartUser
    \/ AppendLine
    \/ Throw
    \/ Return

Init == ParserInit

Next == ParserNext

Spec == Init /\ [][Next]_vars

-----------------------------------------------------------------------------
(* One call of messageToMd *)

Units == { NL, SP, Ch, Tick3, Tag }

RECURSIVE Strings(_)
Strings(n) ==
    IF n = 0 THEN { <<>> }
    ELSE LET shorter == Strings(n - 1)
         IN  shorter \cup
             { Append(str, u) : str \in { x \in shorter : Len(x) = n - 1 },
                                u \in Units }

Turns == [role : {"assistant", "user", "system"}, content : Strings(MaxContent)]

SerializerInit ==
    /\ turn \in { Some(t) : t \in Turns }
    /\ fragment = Null
    /\ ParserIdle
    /\ ChatIdle
    /\ SanitizerIdle
    /\ LinksIdle

Serialize ==
    /\ fragment = Null
    /\ fragment' = Some(messageToMd(turn[1]))
    /\ UNCHANGED <<turn, parserVars, chatVars, sanitizerVars, linkVars>>

SerializerNext == Serialize

SerializerSpec == SerializerInit /\ [][SerializerNext]_vars

-----------------------------------------------------------------------------
(* The chat command, the completion request and the editor *)

SelectedFiles == { <<>>, <<"f1", "f2">> }

RECURSIVE generateSystemPrompt(_)
generateSystemPrompt(selectedFiles) ==
    IF selectedFiles = <<>>
    THEN <<"Here are some files related to the user's request:", NL>>
    ELSE generateSystemPrompt(SubSeq(selectedFiles, 1, Len(selectedFiles) - 1))
         \o <<NL, "---FILE: ", selectedFiles[Len(selectedFiles)], "---", NL,
              "cachedRead">>

(* What the user types: a new line at the end of the document *)
TypedLines == { <<Ch>>, OpenLine, CloseLine }

(* The contents a completion may carry *)
ReplyContents ==
    { <<>>, <<Ch>>, <<SP, Ch, NL>>, <<Tick3, Tag>>,
      <<Tick3, NL, Tick3, Tag>>,
      <<Ch, NL, Tick3, NL, Ch2, NL, Tick3>> }

ChatInit ==
    /\ doc \in { <<>>, Join(<<OpenLine, <<Ch>>, CloseLine>>),
                  Join(<< <<Ch>>, OpenLine, <<Ch>> >>) }
    /\ calls = {}
    /\ nextId = 0
    /\ notices = 0
    /\ appended = <<>>
    /\ ParserIdle
    /\ SerializerIdle
    /\ SanitizerIdle
    /\ LinksIdle

(* Mutant: the turns pushed before the error are submitted all the same *)
ChatSubmitsPartial(selectedFiles) ==
    /\ nextId < MaxChats
    /\ calls' = calls \cup
                { [id |-> nextId, stage |-> "prompt", md |-> doc,
                   selectedFiles |-> selectedFiles,
                   messages |-> RunLoop(InitLocals, Split(doc)).messages] }
    /\ nextId' = nextId + 1
    /\ notices' = IF gptMessages(doc).threw /\ notices < MaxNotices
                  THEN notices + 1 ELSE notices
    /\ UNCHANGED <<doc, appended>>
    /\ UNCHANGED <<parserVars, serializerVars, sanitizerVars, linkVars>>

(* chat, up to its await: the document is parsed; an error ends the call *)
Chat(selectedFiles) ==
    /\ nextId < MaxChats
    /\ LET parsed == gptMessages(doc)
       IN  IF parsed.threw
           THEN /\ notices < MaxNotices
                /\ notices' = notices + 1
                /\ UNCHANGED <<calls, nextId>>
           ELSE /\ calls' = calls \cup
                            { [id |-> nextId, stage |-> "prompt", md |-> doc,
                               selectedFiles |-> selectedFiles,
                               messages |-> parsed.messages] }
                /\ nextId' = nextId + 1
                /\ UNCHANGED notices
    /\ UNCHANGED <<doc, appended>>
    /\ UNCHANGED <<parserVars, serializerVars, sanitizerVars, linkVars>>

(* Mutant: the system turn is pushed after the parsed turns *)
RequestAppendsSystem(c) ==
    /\ c.stage = "prompt"
    /\ calls' = (calls \ {c}) \cup
                { [c EXCEPT !.stage = "requested",
                            !.messages =
                                c.messages \o
                                <<[role |-> "system",
                                   content |->
                                       generateSystemPrompt(c.selectedFiles)]>>] }
    /\ UNCHANGED <<doc, nextId, notices, appended>>
    /\ UNCHANGED <<parserVars, serializerVars, sanitizerVars, linkVars>>

(* chat, after its await: the system turn is put first, the request sent *)
Request(c) ==
    /\ c.stage = "prompt"
    /\ calls' = (calls \ {c}) \cup
                { [c EXCEPT !.stage = "requested",
                            !.messages =
                                <<[role |-> "system",
                                   content |->
                                       generateSystemPrompt(c.selectedFiles)]>>
                                \o c.messages] }
    /\ UNCHANGED <<doc, nextId, notices, appended>>
    /\ UNCHANGED <<parserVars, serializerVars, sanitizerVars, linkVars>>

(* Mutant: the call stays pending after its reply was put *)
CompletionKeepsCall(c, reply) ==
    /\ c.stage = "requested"
    /\ Len(appended) < MaxChats
    /\ doc' = doc \o <<NL>>
                  \o messageToMd([role |-> "assistant", content |-> reply])
    /\ appended' = Append(appended,
                          [id |-> c.id, md |-> c.md, at |-> Len(doc),
                           message |-> [role |-> "assistant",
                                        content |-> reply]])
    /\ UNCHANGED <<calls, nextId, notices>>
    /\ UNCHANGED <<parserVars, serializerVars, sanitizerVars, linkVars>>

(* Mutant: the reply is put after the text that was parsed, and what was
   typed since is lost *)
CompletionAtParsedEnd(c, reply) ==
    /\ c.stage = "requested"
    /\ doc' = c.md \o <<NL>>
                   \o messageToMd([role |-> "assistant", content |-> reply])
    /\ calls' = calls \ {c}
    /\ appended' = Append(appended,
                          [id |-> c.id, md |-> c.md, at |-> Len(doc),
                           message |-> [role |-> "assistant",
                                        content |-> reply]])
    /\ UNCHANGED <<nextId, notices>>
    /\ UNCHANGED <<parserVars, serializerVars, sanitizerVars, linkVars>>

(* The then-callback: the reply is serialized and put at the end *)
Completion(c, reply) ==
    /\ c.stage = "requested"
    /\ doc' = doc \o <<NL>>
                  \o messageToMd([role |-> "assistant", content |-> reply])
    /\ calls' = calls \ {c}
    /\ appended' = Append(appended,
                          [id |-> c.id, md |-> c.md, at |-> Len(doc),
                           message |-> [role |-> "assistant",
                                        content |-> reply]])
    /\ UNCHANGED <<nextId, notices>>
    /\ UNCHANGED <<parserVars, serializerVars, sanitizerVars, linkVars>>

(* The request, or the read of a selected file, is rejected *)
Rejection(c) ==
    /\ calls' = calls \ {c}
    /\ UNCHANGED <<doc, nextId, notices, appended>>
    /\ UNCHANGED <<parserVars, serializerVars, sanitizerVars, linkVars>>

(* The user types a line at the end of the document *)
Edit(line) ==
    /\ Len(doc) + 1 + Len(line) <= MaxDocLen
    /\ doc' = (IF doc = <<>> THEN line ELSE doc \o <<NL>> \o line)
    /\ UNCHANGED <<calls, nextId, notices, appended>>
    /\ UNCHANGED <<parserVars, serializerVars, sanitizerVars, linkVars>>

ChatNext ==
    \/ \E selectedFiles \in SelectedFiles : Chat(selectedFiles)
    \/ \E c \in calls : Request(c)
    \/ \E c \in calls, reply \in ReplyContents : Completion(c, reply)
    \/ \E c \in calls : Rejection(c)
    \/ \E line \in TypedLines : Edit(line)

ChatSpec == ChatInit /\ [][ChatNext]_vars

-----------------------------------------------------------------------------
(* Properties of gptMessages *)

IsBlank(str) == \A i \in 1..Len(str) : IsSpace(str[i])

(* The document has an open-fence line with no close-fence line after it *)
HasUnclosedOpen(text) ==
    LET ls == Split(text)
    IN  \E i \in 1..Len(ls) :
            /\ MatchOpen(ls[i])
            /\ \A j \in (i + 1)..Len(ls) : ~MatchClose(ls[j])

(* C1: when the end of input is reached inside an assistant block (an open
   fence was accepted and no close fence followed), gptMessages throws and
   returns nothing, also when the open fence is the last line. *)
C1_UnclosedBlockFails ==
    (pc # "loop" /\ role = "assistant") => (pc = "threw" /\ result = Null)

(* C2: every turn t returned by gptMessages round-trips: gptMessages of
   messageToMd(t), taken as a document, returns exactly <<t>>. *)
C2_RoundTrip ==
    pc = "returned" =>
        \A i \in 1..Len(messages) :
            gptMessages(messageToMd(messages[i]))
                = [threw |-> FALSE, messages |-> <<messages[i]>>]

TurnsClean ==
    \A i \in 1..Len(messages) :
        LET c == messages[i].content
        IN  c # <<>> /\ ~IsSpace(c[1]) /\ ~IsSpace(c[Len(c)])

(* C4: at every point of a parse every pushed turn has non-empty content
   without leading or trailing whitespace, and a step taken while the
   accumulated content is null, empty or whitespace-only pushes no turn. *)
C4_TurnsCleanBlankDropped ==
    /\ []TurnsClean
    /\ [][ (content = Null \/ IsBlank(content[1])) => messages' = messages ]_vars

C4_Witness ==
    /\ dropped
    /\ content # Null
    /\ IsBlank(content[1])
    /\ Len(content[1]) >= 1
    /\ Len(messages) >= 1

(* C6: gptMessages throws only at the end of input, in the assistant role,
   on a document with an open fence that no close fence follows; and a turn
   is only ever accumulated under a role, so pushing it cannot fail. *)
C6_OnlyUnterminatedFails ==
    /\ pc = "threw" =>
           (lines = <<>> /\ role = "assistant" /\ HasUnclosedOpen(md))
    /\ content # Null => role # NullRole

C6_Witness ==
    /\ pc = "returned"
    /\ ~HasUnclosedOpen(md)
    /\ \E i \in 1..Len(messages) : messages[i].role = "assistant"

(* C7: inside an assistant block an open-fence line is appended to the
   content like any other line: nothing is pushed and the role stays; the
   next close-fence line still ends the block. *)
C7_NestedOpenIsContent ==
    [][ /\ ( pc = "loop" /\ lines # <<>> /\ role = "assistant"
             /\ MatchOpen(Head(lines)) )
           => ( /\ messages' = messages
                /\ role' = "assistant"
                /\ content' = Some(IF Truthy(content)
                                   THEN content[1] \o <<NL>> \o Head(lines)
                                   ELSE Head(lines)) )
        /\ ( pc = "loop" /\ lines # <<>> /\ role = "assistant"
             /\ MatchClose(Head(lines)) )
           => role' = "user" ]_vars

C7_Witness ==
    /\ pc = "returned"
    /\ \E i \in 1..Len(messages) :
           /\ messages[i].role = "assistant"
           /\ Len(messages[i].content) >= 2
           /\ messages[i].content[1] = Tick3
           /\ messages[i].content[2] = Tag

(* C8: two closed assistant blocks with contents A and B, back to back or
   with only blank lines between, give exactly the turns assistant A,
   assistant B; and an open fence met in the user role with null, empty or
   whitespace-only content pushes no turn. *)
C8_AdjacentBlocks ==
    /\ [](\A c \in TwoBlockCases :
              (pc = "returned" /\ md = c.doc) =>
                  result = Some(<<[role |-> "assistant",
                                   content |-> c.first],
                                  [role |-> "assistant",
                                   content |-> c.second]>>))
    /\ [][ ( /\ pc = "loop" /\ lines # <<>> /\ role = "user"
             /\ MatchOpen(Head(lines))
             /\ (content = Null \/ IsBlank(content[1])) )
           => messages' = messages ]_vars

C8_Witness ==
    /\ pc = "returned"
    /\ md = Join(<<OpenLine, <<Ch>>, CloseLine, <<>>, <<SP>>,
                   OpenLine, <<Ch2>>, CloseLine>>)
    /\ Len(messages) = 2

(* C9: the empty document and every document of only whitespace and
   newlines returns the empty turn sequence and does not throw. *)
C9_BlankDocumentEmpty ==
    IsBlank(md) =>
        /\ pc # "threw"
        /\ messages = <<>>
        /\ pc = "returned" => result = Some(<<>>)

C9_Witness ==
    /\ pc = "returned"
    /\ IsBlank(md)
    /\ \E i \in 1..Len(md) : md[i] = SP
    /\ \E i \in 1..Len(md) : md[i] = NL

-----------------------------------------------------------------------------
(* Properties of the chat command *)

CallIds(cs) == { c.id : c \in cs }

(* C5: when gptMessages throws inside chat, the call ends there: a notice is
   shown, no invocation is started and so no request is sent for it, and
   the document is as it was. *)
C5_FailedParseSendsNothing ==
    [][ /\ ~(CallIds(calls') \subseteq CallIds(calls) /\ nextId' = nextId)
               => ~gptMessages(doc).threw
        /\ notices' # notices =>
               (gptMessages(doc).threw /\ doc' = doc /\ calls' = calls) ]_vars

C5_Witness ==
    /\ notices >= 1
    /\ gptMessages(doc).threw
    /\ RunLoop(InitLocals, Split(doc)).messages # <<>>
    /\ calls = {}

-----------------------------------------------------------------------------
(* Properties of messageToMd *)

(* C10: messageToMd returns, for an assistant turn, a newline, the open
   fence line, a newline, the content as it is, a newline and the close
   fence with nothing after it; for any other role a newline and the
   content as it is. *)
C10_SerializedForm ==
    fragment # Null =>
        LET f == fragment[1]
            c == turn[1].content
            n == Len(c)
        IN  IF turn[1].role = "assistant"
            THEN /\ Len(f) = n + 6
                 /\ SubSeq(f, 1, 4) = <<NL, Tick3, Tag, NL>>
                 /\ SubSeq(f, 5, n + 4) = c
                 /\ SubSeq(f, n + 5, n + 6) = <<NL, Tick3>>
            ELSE /\ Len(f) = n + 1
                 /\ f[1] = NL
                 /\ SubSeq(f, 2, n + 1) = c

C10_Witness ==
    /\ fragment # Null
    /\ turn[1].role = "assistant"
    /\ turn[1].content = <<SP, Tick3, NL>>

-----------------------------------------------------------------------------
(* Properties of the stored lines *)

(* The text is found in the whole at offset a, with nothing but whitespace
   before it and after it *)
IsTrimOfAt(text, whole, a) ==
    /\ a + Len(text) <= Len(whole)
    /\ SubSeq(whole, a + 1, a + Len(text)) = text
    /\ IsBlank(SubSeq(whole, 1, a))
    /\ IsBlank(SubSeq(whole, a + Len(text) + 1, Len(whole)))

(* C11: the content of every pushed turn is the lines stored since the last
   fence, joined by single newlines in the order they were read, less the
   whitespace before its first and after its last non-whitespace character;
   what lies between the two is kept as it is. *)
C11_ContentIsJoinedSpan ==
    [][Len(messages') = Len(messages) + 1 =>
          LET pushed == messages'[Len(messages')]
              whole == Join(span)
          IN  /\ pushed.role = role
              /\ pushed.content # <<>>
              /\ ~IsSpace(pushed.content[1])
              /\ ~IsSpace(pushed.content[Len(pushed.content)])
              /\ \E a \in 0..Len(whole) :
                     IsTrimOfAt(pushed.content, whole, a)]_vars

C11_Witness ==
    /\ pc = "returned"
    /\ md = Join(<< <<SP>>, OpenLine, <<Ch>>, <<>>, <<Ch>>, CloseLine >>)
    /\ messages = << [role |-> "assistant", content |-> <<Ch, NL, NL, Ch>>] >>

-----------------------------------------------------------------------------
(* Properties of chat and its replies *)

ParsedRoles == {"user", "assistant"}

(* C12: the turns gptMessages returned to chat are never of role system,
   and in every turn sequence chat hands to the completion client the
   system turn comes first and is the only one of its role. *)
C12_SystemTurnFirstOnce ==
    \A c \in calls :
        IF c.stage = "requested"
        THEN /\ Len(c.messages) >= 1
             /\ c.messages[1].role = "system"
             /\ \A i \in 2..Len(c.messages) :
                    c.messages[i].role \in ParsedRoles
        ELSE \A i \in DOMAIN c.messages :
                 c.messages[i].role \in ParsedRoles

C12_Witness ==
    \E c \in calls :
        /\ c.stage = "requested"
        /\ Len(c.messages) = 3
        /\ c.messages[2].role = "user"
        /\ c.messages[3].role = "assistant"

(* The text put into the document for a reply *)
FragmentOf(e) == <<NL>> \o messageToMd(e.message)

(* The call that left the set of pending calls in this step *)
Settled == { c \in calls : c.id \notin CallIds(calls') }

(* C13: whatever the order of invocations, replies and failures, a reply is
   put into the document only by the completion of its own request, which
   was sent before; every completion puts exactly one fragment, a failure
   and a pending call put none, no fragment is put twice and every
   fragment lies in the document in one piece, after the earlier ones. *)
C13_OneFragmentPerCompletion ==
    /\ [](/\ \A i, j \in DOMAIN appended :
                 i < j => /\ appended[i].id # appended[j].id
                          /\ appended[i].at + Len(FragmentOf(appended[i]))
                                 <= appended[j].at
          /\ \A i \in DOMAIN appended :
                 LET e == appended[i]
                 IN  /\ e.id < nextId
                     /\ e.id \notin CallIds(calls)
                     /\ e.at + Len(FragmentOf(e)) <= Len(doc)
                     /\ SubSeq(doc, e.at + 1, e.at + Len(FragmentOf(e)))
                            = FragmentOf(e))
    /\ [][/\ \A c \in Settled :
                 \/ doc' = doc /\ appended' = appended
                 \/ /\ c.stage = "requested"
                    /\ Len(appended') = Len(appended) + 1
                    /\ SubSeq(appended', 1, Len(appended)) = appended
                    /\ appended'[Len(appended')].id = c.id
                    /\ doc' = doc \o FragmentOf(appended'[Len(appended')])
          /\ Settled = {} =>
                 /\ appended' = appended
                 /\ doc' # doc => \E line \in TypedLines :
                                      doc' \in {line, doc \o <<NL>> \o line}
         ]_vars

C13_Witness ==
    /\ Len(appended) = 2
    /\ appended[1].id = 1
    /\ appended[2].id = 0
    /\ nextId = 2

(* The reply put into the document in this step *)
Arrived == appended'[Len(appended')]

(* C14, as claimed: when a reply arrives the document becomes the document
   of that moment followed by messageToMd of the reply. *)
C14_ReplyIsSerializedAtEnd ==
    [][Len(appended') > Len(appended) =>
          doc' = doc \o messageToMd(Arrived.message)]_vars

(* C14: when a reply arrives the document becomes the document of that
   moment, with what was typed while the request was pending, followed by
   one newline and then messageToMd of the reply; nothing that was there is
   changed, moved or removed. *)
C14_ReplyAfterNewlineAtEnd ==
    [][Len(appended') > Len(appended) =>
          LET n == Len(doc)
              f == messageToMd(Arrived.message)
          IN  /\ Arrived.at = n
              /\ Len(doc') = n + 1 + Len(f)
              /\ SubSeq(doc', 1, n) = doc
              /\ doc'[n + 1] = NL
              /\ SubSeq(doc', n + 2, Len(doc')) = f]_vars

C14_Witness ==
    /\ Len(appended) = 1
    /\ appended[1].at > Len(appended[1].md)
    /\ doc = SubSeq(doc, 1, appended[1].at) \o FragmentOf(appended[1])
    /\ appended[1].message.content = <<Ch>>

-----------------------------------------------------------------------------
(* sanitizeContent on its own: applied to a string, then to its result *)

(* The arguments: strings of whitespace and letters *)
Inputs == UNION { [1..n -> {NL, SP, Tab, Ch}] : n \in 0..MaxInput }

SanitizerInit ==
    /\ \E str \in Inputs : input = str
    /\ sanitized = Null
    /\ resanitized = Null
    /\ ParserIdle
    /\ SerializerIdle
    /\ ChatIdle
    /\ LinksIdle

Sanitize ==
    /\ sanitized = Null
    /\ sanitized' = Some(sanitizeContent(input))
    /\ UNCHANGED <<input, resanitized>>
    /\ UNCHANGED <<parserVars, serializerVars, chatVars, linkVars>>

SanitizeAgain ==
    /\ sanitized # Null
    /\ resanitized = Null
    /\ resanitized' = Some(sanitizeContent(sanitized[1]))
    /\ UNCHANGED <<input, sanitized>>
    /\ UNCHANGED <<parserVars, serializerVars, chatVars, linkVars>>

SanitizerNext == Sanitize \/ SanitizeAgain

SanitizerSpec == SanitizerInit /\ [][SanitizerNext]_vars

(* C15: sanitizeContent returns for every string; what it returns neither
   starts nor ends with a space, tab or newline, is the argument less a
   whitespace-only head and tail, and is returned unchanged when sanitized
   again. *)
C15_SanitizeIdempotent ==
    /\ [](/\ sanitized # Null =>
                 /\ sanitized[1] # <<>> =>
                        /\ ~IsSpace(sanitized[1][1])
                        /\ ~IsSpace(sanitized[1][Len(sanitized[1])])
                 /\ \E a \in 0..Len(input) :
                        IsTrimOfAt(sanitized[1], input, a)
          /\ resanitized # Null => resanitized = sanitized
          /\ sanitized = Null => ENABLED Sanitize)

C15_Witness ==
    /\ input = <<Tab, Ch, SP, Ch, NL>>
    /\ sanitized = Some(<<Ch, SP, Ch>>)
    /\ resanitized = sanitized

(* C16: for every document on which gptMessages returns and every reply
   with non-blank content, gptMessages of the document after the reply was
   put returns, and returns the turns of the document before followed by
   one assistant turn with the sanitized content of the reply. *)
C16_ReplyParsesAsOneTurn ==
    [][(/\ Len(appended') > Len(appended)
        /\ ~gptMessages(doc).threw
        /\ ~IsBlank(Arrived.message.content))
       => /\ ~gptMessages(doc').threw
          /\ gptMessages(doc').messages =
                 Append(gptMessages(doc).messages,
                        [role |-> "assistant",
                         content |->
                             sanitizeContent(Arrived.message.content)])]_vars

(* The case holds for the replies without a fence line, put after a
   document that does not end inside a block *)
C16_Witness ==
    /\ Len(appended) = 1
    /\ appended[1].message.content = <<SP, Ch, NL>>
    /\ doc = <<Ch>> \o FragmentOf(appended[1])
    /\ gptMessages(doc).messages =
           << [role |-> "user", content |-> <<Ch>>],
              [role |-> "assistant", content |-> <<Ch>>] >>

-----------------------------------------------------------------------------
(* The state machine of the specification (4.1), which empties its
   accumulator on every flush: its state is NoTurn, AccumulatingUser or
   AccumulatingAssistant, with the turns emitted and the lines accumulated *)

SpecStart == [turns |-> <<>>, state |-> "NoTurn", accumulated |-> <<>>]

SpecFlush(m, turnRole) ==
    LET trimmed == sanitizeContent(Join(m.accumulated))
    IN  [m EXCEPT !.turns = IF trimmed = <<>>
                            THEN @
                            ELSE Append(@, [role |-> turnRole,
                                            content |-> trimmed]),
                  !.accumulated = <<>>]

SpecStep(m, line) ==
    IF m.state # "AccumulatingAssistant" /\ MatchOpen(line)
    THEN [SpecFlush(m, "user") EXCEPT !.state = "AccumulatingAssistant"]
    ELSE IF m.state = "AccumulatingAssistant" /\ MatchClose(line)
    THEN [SpecFlush(m, "assistant") EXCEPT !.state = "AccumulatingUser"]
    ELSE IF m.state = "NoTurn"
    THEN [m EXCEPT !.state = "AccumulatingUser", !.accumulated = <<line>>]
    ELSE [m EXCEPT !.accumulated = Append(@, line)]

RECURSIVE SpecRun(_, _)
SpecRun(m, ls) ==
    IF ls = <<>> THEN m ELSE SpecRun(SpecStep(m, Head(ls)), Tail(ls))

(* The machine at the end of the text, before its termination rule *)
SpecAtEnd(text) == SpecRun(SpecStart, Split(text))

(* The turns the machine returns when it does not end inside a block *)
SpecParse(text) ==
    LET m == SpecAtEnd(text)
    IN  IF m.state = "AccumulatingUser" THEN SpecFlush(m, "user").turns
                                        ELSE m.turns

(* C17: for every document in which every opened block is closed,
   gptMessages returns, and returns the turns of the state machine that
   empties its accumulator on every flush: the whitespace the code carries
   over a dropped flush changes no role, no content and no number of
   turns. *)
C17_SameAsResettingMachine ==
    (pc \in {"returned", "threw"}
        /\ SpecAtEnd(md).state # "AccumulatingAssistant")
    => (pc = "returned" /\ result = Some(SpecParse(md)))

C17_Witness ==
    /\ pc = "returned"
    /\ md = Join(<< <<SP>>, OpenLine, <<SP>>, CloseLine, <<Ch>> >>)
    /\ result = Some(<< [role |-> "user", content |-> <<Ch>>] >>)

-----------------------------------------------------------------------------
(* Properties of the fence lines and of the order of the turns *)

(* C18: a close-fence line read outside an assistant block flushes nothing
   and ends nothing: it is stored as a line of the user content, like any
   other line. Only a close-fence line read inside an assistant block
   flushes the content and makes the role user. *)
C18_CloseFenceOutsideBlockIsContent ==
    [][(pc = "loop" /\ lines # <<>> /\ MatchClose(Head(lines))) =>
          IF role = "assistant"
          THEN /\ role' = "user"
               /\ messages' = UpdateMessages(Locals).messages
               /\ content' = UpdateMessages(Locals).content
               /\ span' = <<>>
          ELSE /\ messages' = messages
               /\ role' = "user"
               /\ span' = Append(span, Head(lines))
               /\ content' # Null
               /\ \E a \in 0..Len(content'[1]) :
                      /\ a + Len(Head(lines)) = Len(content'[1])
                      /\ SubSeq(content'[1], a + 1, Len(content'[1]))
                             = Head(lines)
                      /\ content # Null =>
                             \/ a = 0 /\ content[1] = <<>>
                             \/ SubSeq(content'[1], 1, a)
                                    = content[1] \o <<NL>>]_vars

C18_Witness ==
    /\ pc = "returned"
    /\ md = Join(<< <<Ch>>, CloseLine, <<Ch>>, CloseLine >>)
    /\ messages = << [role |-> "user",
                      content |-> <<Ch, NL, Tick3, NL, Ch, NL, Tick3>>] >>

(* The non-blank lines of a text, each without its outer whitespace and
   with the role r *)
RECURSIVE RoleLines(_, _)
RoleLines(ls, r) ==
    IF ls = <<>> THEN <<>>
    ELSE (IF IsBlank(Head(ls))
          THEN <<>>
          ELSE <<[role |-> r, line |-> sanitizeContent(Head(ls))]>>)
         \o RoleLines(Tail(ls), r)

(* The non-blank lines of the turns, in the order of the turns *)
RECURSIVE TurnLines(_)
TurnLines(ms) ==
    IF ms = <<>> THEN <<>>
    ELSE RoleLines(Split(Head(ms).content), Head(ms).role)
         \o TurnLines(Tail(ms))

(* The non-blank lines of the document that are not an accepted fence,
   each with assistant when it lies inside a block and user otherwise *)
RECURSIVE DocLines(_, _)
DocLines(ls, inside) ==
    IF ls = <<>> THEN <<>>
    ELSE IF ~inside /\ MatchOpen(Head(ls)) THEN DocLines(Tail(ls), TRUE)
    ELSE IF inside /\ MatchClose(Head(ls)) THEN DocLines(Tail(ls), FALSE)
    ELSE RoleLines(<<Head(ls)>>, IF inside THEN "assistant" ELSE "user")
         \o DocLines(Tail(ls), inside)

(* C19: the turns gptMessages returns hold, in the order of the document,
   every non-blank line that is not an accepted fence line, once and under
   the role assistant when the line lies inside a block and user
   otherwise, with only outer whitespace removed; messages grows by pushes
   at its end only. *)
C19_TurnsConserveLines ==
    /\ [](pc = "returned" => TurnLines(messages) = DocLines(Split(md), FALSE))
    /\ [][\/ messages' = messages
          \/ /\ Len(messages') = Len(messages) + 1
             /\ SubSeq(messages', 1, Len(messages)) = messages]_vars

C19_Witness ==
    /\ pc = "returned"
    /\ md = Join(<< <<Ch>>, OpenLine, <<Ch2>>, CloseLine >>)
    /\ messages = << [role |-> "user", content |-> <<Ch>>],
                     [role |-> "assistant", content |-> <<Ch2>>] >>

-----------------------------------------------------------------------------
(* getLinkedFiles over a vault: links is the set of the resolved links
   <<from, to>> between its files *)

Vault == { "n0", "n1", "n2", "n3" }

(* The order in which the links of a file are listed *)
FileOrder == << "n0", "n1", "n2", "n3" >>

Includes(arr, f) == \E i \in 1..Len(arr) : arr[i] = f

(* Array.unique: the first occurrence of every element is kept *)
RECURSIVE Unique(_)
Unique(arr) ==
    IF arr = <<>> THEN <<>>
    ELSE LET front == Unique(SubSeq(arr, 1, Len(arr) - 1))
             last == arr[Len(arr)]
         IN  IF Includes(front, last) THEN front ELSE Append(front, last)

(* getLinks, resolved: the files the file links to, then the files that
   link to it *)
getLinks(file) ==
    SelectSeq(FileOrder, LAMBDA f : <<file, f>> \in links)
    \o SelectSeq(FileOrder, LAMBDA f : <<f, file>> \in links)

(* getLinkedFiles returns a list; ignore is an array the caller shares, so
   the array as the call leaves it is returned with the list *)
RECURSIVE getLinkedFiles(_, _, _, _)
RECURSIVE FlatMapLinked(_, _, _, _)

(* linkedFiles.flatMap(lf => [lf, ...getLinkedFiles(lf.file, depth - 1,
   ignore, degree + 1)]), every call on the same array *)
FlatMapLinked(linked, depth, ignore, degree) ==
    IF linked = <<>> THEN <<>>
    ELSE LET lf == Head(linked)
             sub == getLinkedFiles(lf.file, depth - 1, ignore, degree + 1)
         IN  <<lf>> \o sub.linkedFiles
                    \o FlatMapLinked(Tail(linked), depth, sub.ignore, degree)

(* Mutant: the file itself is not pushed onto ignore *)
getLinkedFilesNoPush(file, depth, ignore, degree) ==
    IF depth < 1
    THEN [linkedFiles |-> <<>>, ignore |-> ignore]
    ELSE LET files == SelectSeq(Unique(getLinks(file)),
                                LAMBDA f : ~Includes(ignore, f))
             rebound == ignore \o files
             linked == [i \in 1..Len(files) |->
                           [file |-> files[i], degree |-> degree]]
         IN  [linkedFiles |-> IF depth > 1
                              THEN FlatMapLinked(linked, depth, rebound, degree)
                              ELSE linked,
              ignore |-> ignore]

getLinkedFiles(file, depth, ignore, degree) ==
    IF depth < 1
    THEN [linkedFiles |-> <<>>, ignore |-> ignore]
    ELSE LET pushed == Append(ignore, file)
             files == SelectSeq(Unique(getLinks(file)),
                                LAMBDA f : ~Includes(pushed, f))
             rebound == pushed \o files
             linked == [i \in 1..Len(files) |->
                           [file |-> files[i], degree |-> degree]]
         IN  [linkedFiles |-> IF depth > 1
                              THEN FlatMapLinked(linked, depth, rebound, degree)
                              ELSE linked,
              ignore |-> pushed]

LinkInit ==
    /\ \E ls \in SUBSET (Vault \X Vault) :
           Cardinality(ls) <= MaxLinks /\ links = ls
    /\ activeFile \in Vault
    /\ linkedFiles = Null
    /\ ParserIdle
    /\ SerializerIdle
    /\ ChatIdle
    /\ SanitizerIdle

(* prechat: the files linked to the active file, two links deep *)
Prechat ==
    /\ linkedFiles = Null
    /\ linkedFiles' = Some(getLinkedFiles(activeFile, 2, <<>>, 1).linkedFiles)
    /\ UNCHANGED <<links, activeFile>>
    /\ UNCHANGED <<parserVars, serializerVars, chatVars, sanitizerVars>>

(* getLinkedFiles(file, depth) called on the active file with the default
   ignore and degree *)
GetLinkedFiles(callDepth) ==
    /\ linkedFiles = Null
    /\ linkedFiles' =
           Some(getLinkedFiles(activeFile, callDepth, <<>>, 1).linkedFiles)
    /\ UNCHANGED <<links, activeFile>>
    /\ UNCHANGED <<parserVars, serializerVars, chatVars, sanitizerVars>>

LinkNext ==
    \/ Prechat
    \/ \E callDepth \in 1..MaxDepth : GetLinkedFiles(callDepth)

LinkSpec == LinkInit /\ [][LinkNext]_vars

(* C20: the list getLinkedFiles(file, 2) returns holds no file more than
   once, whatever the links between the files. *)
C20_NoFileTwice ==
    linkedFiles # Null =>
        \A i, j \in 1..Len(linkedFiles[1]) :
            i # j => linkedFiles[1][i].file # linkedFiles[1][j].file

(* Where the files found are not linked to each other the list has no
   file twice *)
C20_Witness ==
    /\ links = { <<"n0", "n1">>, <<"n1", "n2">>, <<"n3", "n0">> }
    /\ activeFile = "n0"
    /\ linkedFiles = Some(<< [file |-> "n1", degree |-> 1],
                            [file |-> "n2", degree |-> 2],
                            [file |-> "n3", degree |-> 1] >>)

-----------------------------------------------------------------------------
(* The document after a reply *)

(* The locals of gptMessages when it has read the last line of the text *)
AtEndOf(text) == RunLoop(InitLocals, Split(text))

(* The last reply put into the document is still the end of the document *)
EndsWithReply ==
    /\ appended # <<>>
    /\ LET e == appended[Len(appended)]
       IN  e.at + Len(FragmentOf(e)) = Len(doc)

(* C21: as long as nothing is typed after it, a reply put into the
   document, whatever its content and whatever was typed before it, leaves
   a document that does not end inside an assistant block: gptMessages of
   it does not throw. *)
C21_ReplyLeavesNoOpenBlock ==
    EndsWithReply =>
        LET st == AtEndOf(doc)
        IN  st.role # "assistant" /\ ~Throws(st)

C21_Witness ==
    /\ Len(appended) = 2
    /\ appended[1].message.content = <<Tick3, NL, Tick3, Tag>>
    /\ appended[2].message.content = <<Ch, NL, Tick3, NL, Ch2, NL, Tick3>>
    /\ doc = FragmentOf(appended[1]) \o FragmentOf(appended[2])
    /\ ~gptMessages(doc).threw

-----------------------------------------------------------------------------
(* Termination of gptMessages: the loop is not interrupted, so a step that
   can be taken is taken *)

FairSpec == Spec /\ WF_vars(Next)

Ended == pc \in {"returned", "threw"}

(* The lines still to read are the last lines of the document *)
LinesIsRest ==
    LET all == Split(md)
    IN  /\ Len(lines) <= Len(all)
        /\ lines = SubSeq(all, Len(all) - Len(lines) + 1, Len(all))

(* C22: gptMessages ends for every document. Every iteration takes the
   first of the lines still to read and no other, so every line is read
   once and in order; what the iteration does is decided by that line and
   the locals alone; after the last line the call either returns the
   turns or throws, and nothing happens after that. *)
C22_EveryLineOnceThenEnds ==
    /\ <>Ended
    /\ [](/\ LinesIsRest
          /\ Ended => lines = <<>>
          /\ pc = "returned" => result # Null
          /\ pc = "threw" => result = Null)
    /\ [][/\ pc = "loop"
          /\ lines # <<>> =>
                 /\ lines' = Tail(lines)
                 /\ pc' = "loop"
                 /\ LoopBody(Locals, Head(lines))
                        = [messages |-> messages', role |-> role',
                           content |-> content']
          /\ lines = <<>> => (pc' \in {"returned", "threw"} /\ lines' = lines)
         ]_vars

C22_Witness ==
    /\ pc = "returned"
    /\ Len(Split(md)) = MaxLines
    /\ Len(messages) >= 3
    /\ lines = <<>>

(* C23: the list getLinkedFiles(file, depth) returns, for every depth from
   1 on and whatever the links, cycles and links back to the file
   included, does not hold the file itself, at any degree. *)
C23_StartingFileNotListed ==
    linkedFiles # Null =>
        \A i \in 1..Len(linkedFiles[1]) :
            /\ linkedFiles[1][i].file # activeFile
            /\ linkedFiles[1][i].degree \in 1..MaxDepth

C23_Witness ==
    /\ links = { <<"n0", "n0">>, <<"n0", "n1">>, <<"n1", "n0">>,
                 <<"n1", "n2">>, <<"n2", "n3">> }
    /\ activeFile = "n0"
    /\ linkedFiles = Some(<< [file |-> "n1", degree |-> 1],
                            [file |-> "n2", degree |-> 2],
                            [file |-> "n3", degree |-> 3] >>)

====
